---------------------------- MODULE Spec2Model ----------------------------
(***************************************************************************)
(* The chess position evaluator of umatt1/ai-chess-evaluator.              *)
(*                                                                         *)
(* Two implementations of the search live in the repository and both are   *)
(* modelled, selected by the field impl of a request:                      *)
(*   "pkg"    api/chess/evaluator.py, served by api/views/evaluation.py    *)
(*            and api/views/game.py                                        *)
(*   "legacy" api/chess_evaluator.py (with api/utils/evaluation.py and     *)
(*            api/utils/validation.py), served by api/views.py             *)
(*                                                                         *)
(* Scores are floats in the code; here every score is an integer number    *)
(* of hundredths (10.0 is 1000, 0.2 is 20).  float('inf') is the sentinel  *)
(* Inf, far outside every score the program can produce.                   *)
(*                                                                         *)
(* The Position Oracle (python-chess) is the environment.  A position is   *)
(* the record of the facts the code asks the oracle for: side to move,     *)
(* piece counts, attackers of the centre squares, developed minor pieces,  *)
(* full-move number, number of legal moves, and how the game stands.  The  *)
(* oracle reveals the positions below a node when the code enumerates the  *)
(* legal moves of that node.  A move is named by its place in the oracle's *)
(* move-generation order.                                                  *)
(***************************************************************************)
EXTENDS Integers, Sequences, FiniteSets, TLC

VARIABLES
    pc,             \* "idle", "search", "assemble", "done", or "unit"/"unitdone"
    req,            \* the request being served
    stack,          \* activation records of evaluate_at_depth, root first
    budget,         \* what is left of MaxPathLength for the oracle to reveal
    moves_analyzed, \* the nonlocal counter of evaluate_recursive
    leaf_calls,     \* number of calls of _evaluate_position_with_gpt
    svc_calls,      \* number of requests sent to the judgment service
    texts,          \* number of texts the judgment service has returned
    parsed,         \* number of leaf scores parsed from a service text
    rootRet,        \* what evaluate_at_depth(fen, depth) returned
    result,         \* the dict evaluate_recursive returned
    response,       \* the HTTP response of the view
    unit,           \* input and output of one direct evaluator call
    conc            \* requests served by threads of one process

vars == << pc, req, stack, budget, moves_analyzed, leaf_calls, svc_calls,
           texts, parsed, rootRet, result, response, unit, conc >>

(***************************************************************************)
(* Bounds of the model.                                                    *)
(***************************************************************************)
\* Largest total path length (sum over the revealed legal moves of their
\* distance from the root) of the game tree the oracle describes.
MaxPathLength == 6
\* Largest number of texts the judgment service returns while one request
\* is served; after that every call fails (quota or rate limit).
MaxTexts == 2
\* Largest number of legal moves of a position handed directly to an
\* evaluator (the unit specification).
MaxUnitMoves == 2
\* Largest number of legal moves of the root of a request served by a
\* thread (the threads specification).
MaxThreadMoves == 2
\* Largest total path length of the game tree in the specification with
\* fairness.
MaxFairPathLength == 3

(***************************************************************************)
(* Program constants (api/chess/constants.py), in hundredths.              *)
(***************************************************************************)
MAX_EVAL == 1000
MIN_EVAL == -1000
TURN_BONUS == 20
CENTER_CONTROL_BONUS == 10
DEVELOPMENT_BONUS == 20
OPENING_MOVES == 10
\* float('inf')
Inf == 1000000
\* api/chess_evaluator.py: literals of the legacy evaluator
LEGACY_TURN_ADJUST == 20
LEGACY_MAX == 1000
TOP_LINES == 5
\* api/serializers.py: depth = IntegerField(min_value=1, max_value=3)
MIN_DEPTH == 1
MAX_DEPTH == 3

White == TRUE
Black == FALSE

PieceTypes == {"P", "N", "B", "R", "Q"}

PIECE_VALUES == [pt \in PieceTypes |->
    CASE pt = "P" -> 100
      [] pt = "N" -> 300
      [] pt = "B" -> 300
      [] pt = "R" -> 500
      [] pt = "Q" -> 900]

\* CENTER_SQUARES = [E4, E5, D4, D5]: positions 1..4 of the attacker tuples
CENTER_SQUARES == 1..4

(***************************************************************************)
(* The boards the oracle can report.  white/black: number of pieces of     *)
(* each type; wAtt/bAtt: number of attackers of each centre square;        *)
(* wDev/bDev: knights and bishops beyond the second (before the seventh)   *)
(* rank; fullmove: the full-move number.                                   *)
(***************************************************************************)
StartCount == [pt \in PieceTypes |->
    CASE pt = "P" -> 8
      [] pt = "N" -> 2
      [] pt = "B" -> 2
      [] pt = "R" -> 2
      [] pt = "Q" -> 1]

\* an opening position, material level, White slightly more active
BoardOpening ==
    [white |-> StartCount, black |-> StartCount,
     wAtt |-> <<1, 1, 1, 1>>, bAtt |-> <<1, 0, 1, 0>>,
     wDev |-> 1, bDev |-> 0, fullmove |-> 4]

\* a middlegame in which Black has lost queen and rook: material +14.0
BoardWhiteUp ==
    [white |-> StartCount,
     black |-> [StartCount EXCEPT !["Q"] = 0, !["R"] = 1],
     wAtt |-> <<1, 0, 1, 0>>, bAtt |-> <<1, 0, 1, 0>>,
     wDev |-> 2, bDev |-> 2, fullmove |-> 25]

\* a middlegame in which White has lost a knight: material -3.0
BoardBlackUp ==
    [white |-> [StartCount EXCEPT !["N"] = 1], black |-> StartCount,
     wAtt |-> <<0, 0, 1, 0>>, bAtt |-> <<1, 1, 1, 0>>,
     wDev |-> 1, bDev |-> 2, fullmove |-> 18]

Boards == << BoardOpening, BoardWhiteUp, BoardBlackUp >>

BoardIds == 1..Len(Boards)

\* the boards the oracle reveals below the root of a search
SearchBoards == {1, 2}

\* the board of the root of a search (the search never looks at it)
RootBoards == {1}

(***************************************************************************)
(* Arithmetic helpers: Python's max, min and sum.                          *)
(***************************************************************************)
Max(a, b) == IF a >= b THEN a ELSE b

Min(a, b) == IF a <= b THEN a ELSE b

RECURSIVE SumSeq(_)
SumSeq(s) == IF s = << >> THEN 0 ELSE Head(s) + SumSeq(Tail(s))

RECURSIVE SumOver(_, _)
SumOver(S, f) ==
    IF S = {} THEN 0
    ELSE LET x == CHOOSE y \in S : TRUE
         IN f[x] + SumOver(S \ {x}, f)


(***************************************************************************)
(* Positions.  status is "playing", "drawn" (the oracle's is_game_over()   *)
(* holds although legal moves exist: insufficient material, move-count or  *)
(* repetition draws), "checkmate" or "stalemate"; the last two are the     *)
(* positions without legal moves.  threat says that some legal move of the *)
(* side to move checkmates the other side.                                 *)
(***************************************************************************)
StatusOf(n) == IF n = 0 THEN {"checkmate", "stalemate"} ELSE {"playing", "drawn"}

Position(turn, board, n, status, threat) ==
    [turn |-> turn, board |-> board, n |-> n, status |-> status, threat |-> threat]

\* board.is_checkmate()
is_checkmate(pos) == pos.status = "checkmate"

\* board.is_game_over()
is_game_over(pos) == pos.status # "playing"

(***************************************************************************)
(* Heuristic Evaluator of api/chess/evaluator.py.                          *)
(***************************************************************************)
Clamp(x) == Max(Min(x, MAX_EVAL), MIN_EVAL)

Material(b) ==
    SumOver(PieceTypes, [pt \in PieceTypes |->
        b.white[pt] * PIECE_VALUES[pt] - b.black[pt] * PIECE_VALUES[pt]])

CenterControl(b) ==
    SumOver(CENTER_SQUARES, [sq \in CENTER_SQUARES |->
        CENTER_CONTROL_BONUS * b.wAtt[sq] - CENTER_CONTROL_BONUS * b.bAtt[sq]])

Development(b) ==
    IF b.fullmove <= OPENING_MOVES
    THEN DEVELOPMENT_BONUS * b.wDev - DEVELOPMENT_BONUS * b.bDev
    ELSE 0

Mobility(pos) == IF pos.turn = White THEN TURN_BONUS * pos.n ELSE -(TURN_BONUS * pos.n)

PkgUnclamped(pos) ==
    Material(Boards[pos.board]) + CenterControl(Boards[pos.board])
        + Development(Boards[pos.board]) + Mobility(pos)

PkgHeuristic(pos) == Clamp(PkgUnclamped(pos))

(***************************************************************************)
(* Heuristic Evaluator of api/utils/evaluation.py, used by the legacy      *)
(* search for the fallback and for move ordering.                          *)
(***************************************************************************)
LegacyMaterial(b) ==
    SumOver(PieceTypes, [pt \in PieceTypes |->
        (b.white[pt] - b.black[pt]) * PIECE_VALUES[pt]])

LegacyHeuristic(pos) ==
    LegacyMaterial(Boards[pos.board])
        - (IF pos.turn = Black THEN LEGACY_TURN_ADJUST ELSE 0)

Heuristic(impl, pos) == IF impl = "pkg" THEN PkgHeuristic(pos) ELSE LegacyHeuristic(pos)

(***************************************************************************)
(* Text handling of the Leaf Evaluator.  A text is a sequence of one       *)
(* character strings.                                                      *)
(***************************************************************************)
Digits == {"0", "1", "2", "3", "4", "5", "6", "7", "8", "9"}

DigitVal(c) ==
    CASE c = "0" -> 0 [] c = "1" -> 1 [] c = "2" -> 2 [] c = "3" -> 3
      [] c = "4" -> 4 [] c = "5" -> 5 [] c = "6" -> 6 [] c = "7" -> 7
      [] c = "8" -> 8 [] c = "9" -> 9

\* str.strip()
RECURSIVE LStrip(_)
LStrip(s) == IF s # << >> /\ Head(s) = " " THEN LStrip(Tail(s)) ELSE s

RECURSIVE RStrip(_)
RStrip(s) ==
    IF s # << >> /\ s[Len(s)] = " " THEN RStrip(SubSeq(s, 1, Len(s) - 1)) ELSE s

Strip(s) == RStrip(LStrip(s))

\* ''.join(c for c in eval_text if c.isdigit() or c in '.-')
KeepChar(c) == c \in Digits \/ c \in {".", "-"}

Clean(s) == SelectSeq(s, KeepChar)

\* number of characters of s that belong to chars
Count(s, chars) == Len(SelectSeq(s, LAMBDA c : c \in chars))

\* index of the first "." of s, Len(s) + 1 when there is none
RECURSIVE DotAt(_, _)
DotAt(s, i) == IF i > Len(s) \/ s[i] = "." THEN i ELSE DotAt(s, i + 1)

RECURSIVE DigitsVal(_)
DigitsVal(s) ==
    IF s = << >> THEN 0 ELSE DigitsVal(SubSeq(s, 1, Len(s) - 1)) * 10 + DigitVal(s[Len(s)])

\* the fraction digits in hundredths (the texts of the model carry at most
\* two fraction digits, so nothing is lost)
Hundredths(f) ==
    IF Len(f) = 0 THEN 0
    ELSE IF Len(f) = 1 THEN DigitVal(f[1]) * 10
    ELSE DigitVal(f[1]) * 10 + DigitVal(f[2])

\* float() accepts, of the texts Clean can produce, an optional leading
\* minus followed by digits with at most one point and at least one digit
Unsigned(s) == IF s # << >> /\ Head(s) = "-" THEN Tail(s) ELSE s

FloatOk(s) ==
    /\ Count(Unsigned(s), {"-"}) = 0
    /\ Count(Unsigned(s), {"."}) <= 1
    /\ Count(Unsigned(s), Digits) >= 1

Magnitude(u) ==
    DigitsVal(SubSeq(u, 1, DotAt(u, 1) - 1)) * 100
        + Hundredths(SubSeq(u, DotAt(u, 1) + 1, Len(u)))

\* float(cleaned_text), in hundredths
FloatVal(s) ==
    IF s # << >> /\ Head(s) = "-" THEN -Magnitude(Unsigned(s)) ELSE Magnitude(Unsigned(s))

Degenerate == { << >>, <<"-">>, <<".">>, <<"-", ".">> }

(***************************************************************************)
(* The judgment service answers a request with a text or fails with an     *)
(* error (timeout, malformed payload, network).                            *)
(***************************************************************************)
TextReply(t) == [kind |-> "text", text |-> t]

ErrorReply == [kind |-> "error", text |-> << >>]

(***************************************************************************)
(* Leaf Evaluator: _evaluate_position_with_gpt.  The outcome records the   *)
(* score, whether the judgment service was asked, and whether the score    *)
(* came from the Heuristic Evaluator.                                      *)
(***************************************************************************)
Outcome(score, asked, fellback) ==
    [score |-> score, asked |-> asked, fallback |-> fellback]

\* variant: a failed request is scored 0.0 instead of falling back
ParseReplyZero(impl, pos, reply) ==
    IF reply.kind = "error"
    THEN Outcome(0, TRUE, TRUE)
    ELSE LET cleaned_text == Clean(Strip(reply.text)) IN
         IF cleaned_text \in Degenerate \/ ~FloatOk(cleaned_text)
         THEN Outcome(Heuristic(impl, pos), TRUE, TRUE)
         ELSE Outcome(Clamp(FloatVal(cleaned_text)), TRUE, FALSE)

\* the body of the try block, shared by both implementations
ParseReply(impl, pos, reply) ==
    IF reply.kind = "error"
    THEN Outcome(Heuristic(impl, pos), TRUE, TRUE)
    ELSE LET cleaned_text == Clean(Strip(reply.text)) IN
         IF cleaned_text \in Degenerate
         THEN Outcome(Heuristic(impl, pos), TRUE, TRUE)
         ELSE IF ~FloatOk(cleaned_text)
         THEN Outcome(Heuristic(impl, pos), TRUE, TRUE)
         ELSE LET evaluation ==
                     IF pos.turn = Black
                     THEN FloatVal(cleaned_text)
                            - (IF impl = "pkg" THEN TURN_BONUS ELSE LEGACY_TURN_ADJUST)
                     ELSE FloatVal(cleaned_text)
              IN Outcome(IF impl = "pkg"
                         THEN Max(Min(evaluation, MAX_EVAL), MIN_EVAL)
                         ELSE Max(Min(evaluation, LEGACY_MAX), -LEGACY_MAX),
                         TRUE, FALSE)

\* validate_position(fen) of a parsable position: the error, if any
NoLegalMoves(pos) == pos.n = 0

PkgLeaf(pos, reply) == ParseReply("pkg", pos, reply)

LegacyLeaf(pos, reply) ==
    IF NoLegalMoves(pos)
    THEN Outcome(0, FALSE, FALSE)
    ELSE ParseReply("legacy", pos, reply)

LeafEvaluator(impl, pos, reply) ==
    IF impl = "pkg" THEN PkgLeaf(pos, reply) ELSE LegacyLeaf(pos, reply)


(***************************************************************************)
(* Python's list.sort(key=..., reverse=...): stable in both directions.    *)
(***************************************************************************)
Before(a, b, reverse) == IF reverse THEN a > b ELSE a < b

\* insert x behind every element that does not sort strictly after it
RECURSIVE InsertByKey(_, _, _, _)
InsertByKey(s, x, key, reverse) ==
    IF s = << >> THEN << x >>
    ELSE IF Before(key[x], key[Head(s)], reverse)
         THEN << x >> \o s
         ELSE << Head(s) >> \o InsertByKey(Tail(s), x, key, reverse)

RECURSIVE SortFrom(_, _, _, _)
SortFrom(done, rest, key, reverse) ==
    IF rest = << >> THEN done
    ELSE SortFrom(InsertByKey(done, Head(rest), key, reverse), Tail(rest), key, reverse)

\* key is a function defined on the elements of s
SortByKey(s, key, reverse) == SortFrom(<< >>, s, key, reverse)

Range(s) == { s[i] : i \in DOMAIN s }

\* moves_and_positions.sort(key=lambda x: heuristic(Board(x[1])), reverse=is_white)
OrderMoves(impl, mps, is_white) ==
    SortByKey(mps, [mp \in Range(mps) |-> Heuristic(impl, mp.pos)], is_white)

\* variant: the lines sorted upwards whoever is to move
SortLinesAscending(lines, is_white) ==
    SortByKey(lines, [l \in Range(lines) |-> l.evaluation], FALSE)

\* evaluations.sort(key=lambda x: x["evaluation"], reverse=is_white)
SortLines(lines, is_white) ==
    SortByKey(lines, [l \in Range(lines) |-> l.evaluation], is_white)

(***************************************************************************)
(* The Position Oracle reveals the legal moves of a position and the       *)
(* positions they lead to.  The side to move alternates.  The move         *)
(* generation order is restricted to the orders in which the revealed      *)
(* positions are sorted, upwards or downwards, in a fixed enumeration of   *)
(* positions: every pair of different positions occurs in both orders.     *)
(***************************************************************************)
StatusRank(st) ==
    CASE st = "checkmate" -> 0 [] st = "stalemate" -> 1
      [] st = "playing" -> 2 [] st = "drawn" -> 3

Rank(pos) ==
    pos.board * 1000 + pos.n * 10 + StatusRank(pos.status) * 2
        + (IF pos.threat THEN 1 ELSE 0)

Revealable(boards, turn, maxN) ==
    { Position(turn, b, n, st, th) :
        b \in boards, n \in 0..maxN, st \in {"checkmate", "stalemate", "playing", "drawn"},
        th \in BOOLEAN }

Positions(boards, turn, maxN) ==
    { p \in Revealable(boards, turn, maxN) :
        /\ p.status \in StatusOf(p.n)
        /\ p.threat => p.status = "playing" }

RECURSIVE Ascending(_, _, _, _)
Ascending(k, units, lo, turn) ==
    IF k = 0 THEN { << >> }
    ELSE UNION { { << p >> \o s : s \in Ascending(k - 1, units - p.n, Rank(p), turn) } :
                 p \in { q \in Positions(SearchBoards, turn, units) : Rank(q) >= lo } }

Reverse(s) == [i \in 1..Len(s) |-> s[Len(s) + 1 - i]]

MoveCount(ps) == SumSeq([i \in 1..Len(ps) |-> ps[i].n])

\* the positions after the legal moves of pos (a node lvl plies below the
\* root), in move-generation order
Children(pos, lvl, left) ==
    LET up == Ascending(pos.n, left \div (lvl + 2), 0, ~pos.turn)
    IN { ps \in up \cup { Reverse(s) : s \in up } :
            pos.threat <=> (\E i \in 1..Len(ps) : is_checkmate(ps[i])) }

\* _get_moves_and_positions / _get_moves_and_resulting_positions
MovesAndPositions(ps) == [i \in 1..Len(ps) |-> [move |-> i, pos |-> ps[i]]]

(***************************************************************************)
(* Activation records of evaluate_at_depth.                                *)
(***************************************************************************)
Frame(pos, lvl, depth, alpha, beta) ==
    [pos |-> pos, level |-> lvl, current_depth |-> depth,
     alpha |-> alpha, beta |-> beta, stage |-> "enter",
     moves |-> << >>, next |-> 1, evaluations |-> << >>,
     best_value |-> IF pos.turn = White THEN -Inf ELSE Inf,
     pruned |-> FALSE]

Top == stack[Len(stack)]

\* variant: the child's score recorded without the negation
LineNoNegation(impl, mp, child_score, child_lines) ==
    [move |-> mp.move, evaluation |-> child_score,
     lines |-> child_lines,
     continuation |-> IF impl = "pkg" THEN << >>
                      ELSE [i \in 1..Len(child_lines) |-> child_lines[i].move],
     child |-> child_score, pos |-> mp.pos]

\* One evaluated line of the pair mp = (move, resulting position).  move,
\* evaluation and lines are the dict of api/chess/evaluator.py; move,
\* evaluation and continuation are the EvaluationLine of
\* api/chess_evaluator.py, for which lines only keeps the child's lines for
\* reference.  child is the score the child returned and pos the position
\* the child searched, both for reference.
Line(impl, mp, child_score, child_lines) ==
    [move |-> mp.move, evaluation |-> -child_score,
     lines |-> child_lines,
     continuation |-> IF impl = "pkg" THEN << >>
                      ELSE [i \in 1..Len(child_lines) |-> child_lines[i].move],
     child |-> child_score, pos |-> mp.pos]

\* variant: every line is recorded under the first move of the list
ConsumeFirstMove(impl, f, child_score, child_lines) ==
    LET line == Line(impl, [f.moves[f.next] EXCEPT !.move = f.moves[1].move],
                     child_score, child_lines)
        eval_score == line.evaluation
        is_white == f.pos.turn
        best == IF is_white THEN Max(f.best_value, eval_score)
                ELSE Min(f.best_value, eval_score)
        a == IF is_white THEN Max(f.alpha, best) ELSE f.alpha
        b == IF is_white THEN f.beta ELSE Min(f.beta, best)
    IN [f EXCEPT !.evaluations = Append(@, line),
                 !.best_value = best,
                 !.alpha = a,
                 !.beta = b,
                 !.pruned = (b <= a),
                 !.next = @ + 1,
                 !.stage = "loop"]

\* the loop body after the recursive call: record the line, update the
\* running best and the bounds, test the cutoff
Consume(impl, f, child_score, child_lines) ==
    LET line == Line(impl, f.moves[f.next], child_score, child_lines)
        eval_score == line.evaluation
        is_white == f.pos.turn
        best == IF is_white THEN Max(f.best_value, eval_score)
                ELSE Min(f.best_value, eval_score)
        a == IF is_white THEN Max(f.alpha, best) ELSE f.alpha
        b == IF is_white THEN f.beta ELSE Min(f.beta, best)
    IN [f EXCEPT !.evaluations = Append(@, line),
                 !.best_value = best,
                 !.alpha = a,
                 !.beta = b,
                 !.pruned = (b <= a),
                 !.next = @ + 1,
                 !.stage = "loop"]

\* evaluate_at_depth returns (score, lines) to its caller: to the loop of
\* the parent, or to evaluate_recursive (moves keeps the ordered moves of
\* the root for reference)
NoReturn == [score |-> 0, lines |-> << >>, moves |-> << >>]

Return(score, lines) ==
    IF Len(stack) = 1
    THEN /\ stack' = << >>
         /\ rootRet' = [score |-> score, lines |-> lines, moves |-> Top.moves]
         /\ pc' = "assemble"
    ELSE /\ stack' = [SubSeq(stack, 1, Len(stack) - 1) EXCEPT
                        ![Len(stack) - 1] = Consume(req.impl, @, score, lines)]
         /\ UNCHANGED << rootRet, pc >>


(***************************************************************************)
(* The dict evaluate_recursive returns.  keys are the keys the dict has,   *)
(* none the keys whose value is None.  api/chess/evaluator.py builds the   *)
(* dict literally; api/chess_evaluator.py returns                          *)
(* EvaluationResult(...).__dict__, which always has all four fields.       *)
(***************************************************************************)
ResultKeys == {"best_move", "evaluation", "all_lines", "error"}

NoResult ==
    [keys |-> {}, none |-> {}, best_move |-> 0, evaluation |-> 0,
     all_lines |-> << >>, error |-> ""]

ErrorResult(impl, msg) ==
    [keys |-> IF impl = "pkg" THEN {"error"} ELSE ResultKeys,
     none |-> IF impl = "pkg" THEN {} ELSE ResultKeys \ {"error"},
     best_move |-> 0, evaluation |-> 0, all_lines |-> << >>, error |-> msg]

OkResult(impl, best_move, evaluation, all_lines) ==
    [keys |-> IF impl = "pkg" THEN ResultKeys \ {"error"} ELSE ResultKeys,
     none |-> IF impl = "pkg" THEN {} ELSE {"error"},
     best_move |-> best_move, evaluation |-> evaluation,
     all_lines |-> all_lines, error |-> ""]

Take(s, k) == SubSeq(s, 1, Min(k, Len(s)))

\* variant: the best move taken from the wrong end of the line list
AssembleResultLast(impl, root, ret) ==
    IF ret.lines = << >>
    THEN ErrorResult(impl, "No valid moves found")
    ELSE OkResult(impl, ret.lines[Len(ret.lines)].move, ret.score, Take(ret.lines, TOP_LINES))

\* evaluate_recursive after evaluate_at_depth(fen, depth) has returned
AssembleResult(impl, root, ret) ==
    IF ret.lines = << >>
    THEN ErrorResult(impl, "No valid moves found")
    ELSE IF impl = "pkg"
    THEN OkResult(impl, ret.lines[1].move, ret.lines[1].evaluation, ret.lines)
    ELSE LET sorted_moves == SortLines(ret.lines, root.turn)
         IN OkResult(impl, sorted_moves[1].move, ret.score, Take(sorted_moves, TOP_LINES))

(***************************************************************************)
(* HTTP responses of the views.                                            *)
(***************************************************************************)
HTTP_200_OK == 200
HTTP_400_BAD_REQUEST == 400
HTTP_500_INTERNAL_SERVER_ERROR == 500

NoResponse ==
    [status |-> 0, kind |-> "none", error |-> "", best_move |-> 0,
     evaluation |-> 0, all_lines |-> << >>]

ErrorResponse(status, msg) ==
    [status |-> status, kind |-> "error", error |-> msg, best_move |-> 0,
     evaluation |-> 0, all_lines |-> << >>]

\* Response(serializer.errors, status=400)
SerializerErrors ==
    [status |-> HTTP_400_BAD_REQUEST, kind |-> "serializer", error |-> "", best_move |-> 0,
     evaluation |-> 0, all_lines |-> << >>]

\* Response(result)
ResultResponse(res) ==
    [status |-> HTTP_200_OK, kind |-> "result", error |-> "", best_move |-> res.best_move,
     evaluation |-> res.evaluation, all_lines |-> res.all_lines]

\* Response({'best_move': ..., 'evaluation': ...})
MoveResponse(res) ==
    [status |-> HTTP_200_OK, kind |-> "move", error |-> "", best_move |-> res.best_move,
     evaluation |-> res.evaluation, all_lines |-> << >>]

\* result['error'] as the body shows it
ErrorOf(res) == IF "error" \in res.none THEN "None" ELSE res.error

\* validate_move(result['best_move'], board): the move is legal in the root
\* position (every legal move changes the position)
MoveError(move, root) == ~(move \in 1..root.n)

\* the view after evaluate_recursive has returned (a caller that is not a
\* view answers nothing)
ViewResponse(view, root, res) ==
    IF view = "direct" THEN NoResponse
    ELSE IF "error" \in res.keys
    THEN ErrorResponse(HTTP_400_BAD_REQUEST, ErrorOf(res))
    ELSE IF view = "evaluate"
    THEN ResultResponse(res)
    ELSE IF "best_move" \in res.none
    THEN ErrorResponse(HTTP_500_INTERNAL_SERVER_ERROR, "No move was returned by the evaluator")
    ELSE IF MoveError(res.best_move, root)
    THEN ErrorResponse(HTTP_400_BAD_REQUEST, "Invalid move")
    ELSE MoveResponse(res)

\* variant: the serializer accepts depth 0
SerializerValidFromZero(r) == r.key_ok /\ r.depth >= 0 /\ r.depth <= MAX_DEPTH

\* ChessPositionSerializer.is_valid()
SerializerValid(r) == r.key_ok /\ r.depth >= MIN_DEPTH /\ r.depth <= MAX_DEPTH

\* variant: no view looks at the legal moves before the search
RejectionNoMoveCheck(r) ==
    IF ~SerializerValid(r) THEN SerializerErrors
    ELSE IF ~r.fen_ok
    THEN IF r.impl = "pkg" THEN ErrorResponse(HTTP_400_BAD_REQUEST, "Invalid FEN")
         ELSE IF r.view = "get_move"
         THEN ErrorResponse(HTTP_500_INTERNAL_SERVER_ERROR, "Invalid FEN")
         ELSE NoResponse
    ELSE NoResponse

\* What the view answers before it calls evaluate_recursive; kind "none"
\* when it calls it.
Rejection(r) ==
    IF ~SerializerValid(r) THEN SerializerErrors
    ELSE IF r.impl = "pkg"
    THEN \* validate_position in the view
         IF ~r.fen_ok THEN ErrorResponse(HTTP_400_BAD_REQUEST, "Invalid FEN")
         ELSE IF NoLegalMoves(r.root)
         THEN ErrorResponse(HTTP_400_BAD_REQUEST, "No legal moves available in this position")
         ELSE NoResponse
    ELSE IF r.view = "get_move"
    THEN \* chess.Board(fen) inside the try of GetBotMoveView
         IF ~r.fen_ok THEN ErrorResponse(HTTP_500_INTERNAL_SERVER_ERROR, "Invalid FEN")
         ELSE IF NoLegalMoves(r.root)
         THEN ErrorResponse(HTTP_400_BAD_REQUEST, "No legal moves available in this position")
         ELSE NoResponse
    ELSE \* EvaluatePositionView of views.py validates nothing itself
         NoResponse

\* evaluate_recursive before the first call of evaluate_at_depth: the error
\* dict it returns, NoResult when the search is to run
Precheck(r) ==
    IF r.impl = "pkg"
    THEN IF ~r.fen_ok THEN ErrorResult(r.impl, "Invalid FEN")
         ELSE IF r.depth < 1 THEN ErrorResult(r.impl, "Depth must be at least 1")
         ELSE NoResult
    ELSE \* validate_position(fen) comes first
         IF ~r.fen_ok THEN ErrorResult(r.impl, "Invalid FEN")
         ELSE IF NoLegalMoves(r.root)
         THEN ErrorResult(r.impl, "No legal moves available in this position")
         ELSE IF r.depth < 1 THEN ErrorResult(r.impl, "Depth must be at least 1")
         ELSE NoResult

(***************************************************************************)
(* Inputs.                                                                 *)
(***************************************************************************)
Impls == {"pkg", "legacy"}

Views == {"evaluate", "get_move"}

\* the position a malformed FEN stands for: none; the field is a filler
NoPosition == Position(White, 1, 0, "stalemate", FALSE)

RootPositions ==
    Positions(RootBoards, White, MaxPathLength) \cup Positions(RootBoards, Black, MaxPathLength)

Request(impl, view, fen_ok, depth, key_ok, root) ==
    [impl |-> impl, view |-> view, fen_ok |-> fen_ok, depth |-> depth,
     key_ok |-> key_ok, root |-> root]

NoRequest == Request("pkg", "evaluate", FALSE, 0, FALSE, NoPosition)

\* the depths evaluate_recursive is called with by a caller that is not a view
DirectDepths == -1..1

\* what the judgment service answers during a search
ServiceReplies == { ErrorReply, TextReply(<<"0", ".", "5">>) }

NoUnit == [impl |-> "pkg", pos |-> NoPosition, reply |-> ErrorReply,
           leaf |-> Outcome(0, FALSE, FALSE), heuristic |-> 0]

(***************************************************************************)
(* Threads.  openai.api_key is an attribute of the module openai, one per  *)
(* process; a thread serves one request.  used lists the credentials the   *)
(* requests to the judgment service made for the request were sent with.   *)
(***************************************************************************)
Threads == {1, 2}

Credentials == {"sk-A", "sk-B"}

NoCredential == ""

Thread(api_key, n) ==
    [at |-> "post", api_key |-> api_key, n |-> n, moves_analyzed |-> 0,
     visited |-> 0, used |-> << >>]

NoConc == [api_key |-> NoCredential, thread |-> [t \in Threads |-> Thread(NoCredential, 0)]]

(***************************************************************************)
(* The state machine of one request.                                       *)
(***************************************************************************)
Init ==
    /\ pc = "idle"
    /\ req = NoRequest
    /\ stack = << >>
    /\ budget = MaxPathLength
    /\ moves_analyzed = 0
    /\ leaf_calls = 0
    /\ svc_calls = 0
    /\ texts = 0
    /\ parsed = 0
    /\ rootRet = NoReturn
    /\ result = NoResult
    /\ response = NoResponse
    /\ unit = NoUnit
    /\ conc = NoConc

\* evaluate_recursive(fen, depth) is called: it returns an error dict at
\* once or calls evaluate_at_depth(fen, depth)
Start(r) ==
    IF Precheck(r) # NoResult
    THEN /\ result' = Precheck(r)
         /\ response' = ViewResponse(r.view, r.root, Precheck(r))
         /\ pc' = "done"
         /\ stack' = << >>
    ELSE /\ result' = NoResult
         /\ response' = NoResponse
         /\ pc' = "search"
         /\ stack' = << Frame(r.root, 0, r.depth, -Inf, Inf) >>

\* post(): the serializer, the validation of the view and the preamble of
\* evaluate_recursive, up to the first call of evaluate_at_depth
Receive ==
    /\ pc = "idle"
    /\ \E impl \in Impls, view \in Views, fen_ok \in BOOLEAN,
          depth \in (MIN_DEPTH - 1)..(MAX_DEPTH + 1), key_ok \in BOOLEAN,
          root \in RootPositions :
          LET r == Request(impl, view, fen_ok, depth, key_ok, root) IN
          /\ ~fen_ok => root = NoPosition
          /\ root.n <= budget
          /\ req' = r
          /\ budget' = budget - root.n
          /\ IF Rejection(r).kind # "none"
             THEN /\ response' = Rejection(r)
                  /\ result' = NoResult
                  /\ pc' = "done"
                  /\ stack' = << >>
             ELSE Start(r)
    /\ UNCHANGED << moves_analyzed, leaf_calls, svc_calls, texts, parsed, rootRet, unit, conc >>

\* evaluate_recursive called by a caller that is not a view (no serializer,
\* no validation before it)
Call ==
    /\ pc = "idle"
    /\ \E impl \in Impls, fen_ok \in BOOLEAN, depth \in DirectDepths,
          root \in RootPositions :
          LET r == Request(impl, "direct", fen_ok, depth, TRUE, root) IN
          /\ ~fen_ok => root = NoPosition
          /\ root.n <= budget
          /\ req' = r
          /\ budget' = budget - root.n
          /\ Start(r)
    /\ UNCHANGED << moves_analyzed, leaf_calls, svc_calls, texts, parsed, rootRet, unit, conc >>

\* api/chess_evaluator.py: validate_position(current_fen) reports a position
\* without legal moves as an error and the node returns 0.0
EnterInvalid ==
    /\ pc = "search" /\ stack # << >> /\ Top.stage = "enter"
    /\ req.impl = "legacy" /\ NoLegalMoves(Top.pos)
    /\ Return(0, << >>)
    /\ UNCHANGED << req, budget, moves_analyzed, leaf_calls, svc_calls, texts, parsed,
                    result, response, unit, conc >>

\* current_depth == 0: the Leaf Evaluator is called and asks the service
EnterLeaf ==
    /\ pc = "search" /\ stack # << >> /\ Top.stage = "enter"
    /\ ~(req.impl = "legacy" /\ NoLegalMoves(Top.pos))
    /\ Top.current_depth = 0
    /\ stack' = [stack EXCEPT ![Len(stack)].stage = "call"]
    /\ leaf_calls' = leaf_calls + 1
    /\ svc_calls' = svc_calls + 1
    /\ UNCHANGED << pc, req, budget, moves_analyzed, texts, parsed, rootRet, result,
                    response, unit, conc >>

\* the service answers (or fails) and the Leaf Evaluator returns
LeafReply ==
    /\ pc = "search" /\ stack # << >> /\ Top.stage = "call"
    /\ \E reply \in ServiceReplies :
          LET out == LeafEvaluator(req.impl, Top.pos, reply) IN
          /\ reply.kind = "text" => texts < MaxTexts
          /\ Return(out.score, << >>)
          /\ texts' = IF reply.kind = "text" THEN texts + 1 ELSE texts
          /\ parsed' = IF out.fallback THEN parsed ELSE parsed + 1
    /\ UNCHANGED << req, budget, moves_analyzed, leaf_calls, svc_calls,
                    result, response, unit, conc >>

\* variant: the game-over test placed before the depth test
EnterGameOverFirst ==
    /\ pc = "search" /\ stack # << >> /\ Top.stage = "enter"
    /\ ~(req.impl = "legacy" /\ NoLegalMoves(Top.pos))
    /\ is_game_over(Top.pos)
    /\ LET mate == IF req.impl = "pkg" THEN MAX_EVAL ELSE LEGACY_MAX IN
       IF is_checkmate(Top.pos)
       THEN Return(IF Top.pos.turn = White THEN -mate ELSE mate, << >>)
       ELSE Return(0, << >>)
    /\ UNCHANGED << req, budget, moves_analyzed, leaf_calls, svc_calls, texts, parsed,
                    result, response, unit, conc >>

\* current_board.is_game_over() at a node of depth >= 1
EnterGameOver ==
    /\ pc = "search" /\ stack # << >> /\ Top.stage = "enter"
    /\ ~(req.impl = "legacy" /\ NoLegalMoves(Top.pos))
    /\ Top.current_depth # 0
    /\ is_game_over(Top.pos)
    /\ LET mate == IF req.impl = "pkg" THEN MAX_EVAL ELSE LEGACY_MAX IN
       IF is_checkmate(Top.pos)
       THEN Return(IF Top.pos.turn = White THEN -mate ELSE mate, << >>)
       ELSE Return(0, << >>)
    /\ UNCHANGED << req, budget, moves_analyzed, leaf_calls, svc_calls, texts, parsed,
                    result, response, unit, conc >>

\* an internal node: enumerate the legal moves and order them
EnterExpand ==
    /\ pc = "search" /\ stack # << >> /\ Top.stage = "enter"
    /\ ~(req.impl = "legacy" /\ NoLegalMoves(Top.pos))
    /\ Top.current_depth # 0
    /\ ~is_game_over(Top.pos)
    /\ \E ps \in Children(Top.pos, Top.level, budget) :
          /\ stack' = [stack EXCEPT
                 ![Len(stack)].moves =
                     OrderMoves(req.impl, MovesAndPositions(ps), Top.pos.turn),
                 ![Len(stack)].stage = "loop"]
          /\ budget' = budget - (Top.level + 2) * MoveCount(ps)
    /\ UNCHANGED << pc, req, moves_analyzed, leaf_calls, svc_calls, texts, parsed,
                    rootRet, result, response, unit, conc >>

\* variant: the child is searched with the bounds of its parent
DescendKeepBounds ==
    /\ pc = "search" /\ stack # << >> /\ Top.stage = "loop"
    /\ Top.next <= Len(Top.moves) /\ ~Top.pruned
    /\ moves_analyzed' = moves_analyzed + 1
    /\ stack' = Append([stack EXCEPT ![Len(stack)].stage = "wait"],
                       Frame(Top.moves[Top.next].pos, Top.level + 1,
                             Top.current_depth - 1, Top.alpha, Top.beta))
    /\ UNCHANGED << pc, req, budget, leaf_calls, svc_calls, texts, parsed, rootRet,
                    result, response, unit, conc >>

\* variant: the child is searched with the depth of its parent
DescendSameDepth ==
    /\ pc = "search" /\ stack # << >> /\ Top.stage = "loop"
    /\ Top.next <= Len(Top.moves) /\ ~Top.pruned
    /\ moves_analyzed' = moves_analyzed + 1
    /\ stack' = Append([stack EXCEPT ![Len(stack)].stage = "wait"],
                       Frame(Top.moves[Top.next].pos, Top.level + 1,
                             Top.current_depth, -Top.beta, -Top.alpha))
    /\ UNCHANGED << pc, req, budget, leaf_calls, svc_calls, texts, parsed, rootRet,
                    result, response, unit, conc >>

\* the loop takes the next move and recurses with the bounds negated and
\* swapped
Descend ==
    /\ pc = "search" /\ stack # << >> /\ Top.stage = "loop"
    /\ Top.next <= Len(Top.moves) /\ ~Top.pruned
    /\ moves_analyzed' = moves_analyzed + 1
    /\ stack' = Append([stack EXCEPT ![Len(stack)].stage = "wait"],
                       Frame(Top.moves[Top.next].pos, Top.level + 1,
                             Top.current_depth - 1, -Top.beta, -Top.alpha))
    /\ UNCHANGED << pc, req, budget, leaf_calls, svc_calls, texts, parsed, rootRet,
                    result, response, unit, conc >>

\* the loop is over (exhausted or cut off): sort the lines and return
Finish ==
    /\ pc = "search" /\ stack # << >> /\ Top.stage = "loop"
    /\ Top.next > Len(Top.moves) \/ Top.pruned
    /\ LET evaluations == SortLines(Top.evaluations, Top.pos.turn) IN
       IF req.impl = "pkg"
       THEN Return(IF evaluations # << >> THEN evaluations[1].evaluation ELSE 0,
                   evaluations)
       ELSE Return(Top.best_value, evaluations)
    /\ UNCHANGED << req, budget, moves_analyzed, leaf_calls, svc_calls, texts, parsed,
                    result, response, unit, conc >>

\* evaluate_recursive builds its result and the view answers
Assemble ==
    /\ pc = "assemble"
    /\ result' = AssembleResult(req.impl, req.root, rootRet)
    /\ response' = ViewResponse(req.view, req.root, result')
    /\ pc' = "done"
    /\ UNCHANGED << req, stack, budget, moves_analyzed, leaf_calls, svc_calls,
                    texts, parsed, rootRet, unit, conc >>

Next ==
    \/ Receive
    \/ Call
    \/ EnterInvalid
    \/ EnterLeaf
    \/ LeafReply
    \/ EnterGameOver
    \/ EnterExpand
    \/ Descend
    \/ Finish
    \/ Assemble

Spec == Init /\ [][Next]_vars

(***************************************************************************)
(* The search on its own: evaluate_recursive has been called with a        *)
(* position that has legal moves and a depth >= 1 and has called           *)
(* evaluate_at_depth(fen, depth).  It runs in one thread that keeps        *)
(* running: a step that can be taken is taken (the judgment service        *)
(* answers or fails every call).                                           *)
(***************************************************************************)
InitFair ==
    /\ pc = "search"
    /\ moves_analyzed = 0
    /\ leaf_calls = 0
    /\ svc_calls = 0
    /\ texts = 0
    /\ parsed = 0
    /\ rootRet = NoReturn
    /\ result = NoResult
    /\ response = NoResponse
    /\ unit = NoUnit
    /\ conc = NoConc
    /\ \E impl \in Impls, depth \in MIN_DEPTH..MAX_DEPTH,
          root \in Positions(RootBoards, White, MaxFairPathLength)
                     \cup Positions(RootBoards, Black, MaxFairPathLength) :
          /\ root.n > 0
          /\ req = Request(impl, "direct", TRUE, depth, TRUE, root)
          /\ budget = MaxFairPathLength - root.n
          /\ stack = << Frame(root, 0, depth, -Inf, Inf) >>

NextFair ==
    \/ EnterInvalid
    \/ EnterLeaf
    \/ LeafReply
    \/ EnterGameOver
    \/ EnterExpand
    \/ Descend
    \/ Finish
    \/ Assemble

SpecFair == InitFair /\ [][NextFair]_vars /\ WF_vars(NextFair)


(***************************************************************************)
(* Direct calls of the evaluators: the Heuristic Evaluator and the Leaf    *)
(* Evaluator applied to one position and one answer of the service.        *)
(***************************************************************************)
UnitReplies ==
    { ErrorReply,
      TextReply(<< >>),
      TextReply(<< "-" >>),
      TextReply(<< "." >>),
      TextReply(<< "-", "." >>),
      TextReply(<< "a", "b", "c" >>),
      TextReply(<< "a", ".", "b", ".", "c" >>),
      TextReply(<< "0", ".", "5" >>),
      TextReply(<< " ", "0", ".", "5", " " >>),
      TextReply(<< "-", "1", ".", "2" >>),
      TextReply(<< "3", ".", "0" >>),
      TextReply(<< "1", "5" >>),
      TextReply(<< "-", "1", "5", ".", "0" >>),
      TextReply(<< "7" >>),
      TextReply(<< ".", "5" >>),
      TextReply(<< "1", ".", "2", ".", "3" >>),
      TextReply(<< "5", "-" >>),
      TextReply(<< "-", "1", ".", "5", " ", "t", "o", " ", "2", ".", "0" >>),
      TextReply(<< "1", " ", "o", "r", " ", "2" >>),
      TextReply(<< "e", "v", "a", "l", ":", " ", "0", ".", "2", "5" >>) }

UnitPositions ==
    { p \in Positions(BoardIds, White, MaxUnitMoves) \cup Positions(BoardIds, Black, MaxUnitMoves) :
        ~p.threat }

InitUnit ==
    /\ pc = "unit"
    /\ req = NoRequest
    /\ stack = << >>
    /\ budget = 0
    /\ moves_analyzed = 0
    /\ leaf_calls = 0
    /\ svc_calls = 0
    /\ texts = 0
    /\ parsed = 0
    /\ rootRet = NoReturn
    /\ result = NoResult
    /\ response = NoResponse
    /\ \E impl \in Impls, pos \in UnitPositions, reply \in UnitReplies :
          unit = [impl |-> impl, pos |-> pos, reply |-> reply,
                  leaf |-> Outcome(0, FALSE, FALSE), heuristic |-> 0]
    /\ conc = NoConc

\* the Heuristic Evaluator the implementation orders moves with
UnitHeuristic ==
    /\ pc = "unit"
    /\ unit' = [unit EXCEPT !.heuristic = Heuristic(unit.impl, unit.pos)]
    /\ pc' = "unit_leaf"
    /\ UNCHANGED << req, stack, budget, moves_analyzed, leaf_calls, svc_calls,
                    texts, parsed, rootRet, result, response, conc >>

\* _evaluate_position_with_gpt(fen) with the service answering unit.reply
UnitLeaf ==
    /\ pc = "unit_leaf"
    /\ unit' = [unit EXCEPT !.leaf = LeafEvaluator(unit.impl, unit.pos, unit.reply)]
    /\ pc' = "unit_done"
    /\ leaf_calls' = leaf_calls + 1
    /\ svc_calls' = IF unit'.leaf.asked THEN svc_calls + 1 ELSE svc_calls
    /\ UNCHANGED << req, stack, budget, moves_analyzed, texts, parsed, rootRet,
                    result, response, conc >>

NextUnit ==
    \/ UnitHeuristic
    \/ UnitLeaf

SpecUnit == InitUnit /\ [][NextUnit]_vars


(***************************************************************************)
(* Two requests served by two threads of one process, each a depth-1       *)
(* search of a root with legal moves that passed the serializer and the    *)
(* validation.  A step of a thread is atomic; the threads interleave.      *)
(***************************************************************************)
InitThreads ==
    /\ pc = "threads"
    /\ req = NoRequest
    /\ stack = << >>
    /\ budget = 0
    /\ moves_analyzed = 0
    /\ leaf_calls = 0
    /\ svc_calls = 0
    /\ texts = 0
    /\ parsed = 0
    /\ rootRet = NoReturn
    /\ result = NoResult
    /\ response = NoResponse
    /\ unit = NoUnit
    /\ \E keys \in [Threads -> Credentials], ns \in [Threads -> 1..MaxThreadMoves] :
          conc = [api_key |-> NoCredential,
                  thread |-> [t \in Threads |-> Thread(keys[t], ns[t])]]

Main == << pc, req, stack, budget, moves_analyzed, leaf_calls, svc_calls,
           texts, parsed, rootRet, result, response, unit >>

\* evaluator = ChessEvaluator(api_key): __init__ assigns openai.api_key
Construct(t) ==
    /\ conc.thread[t].at = "post"
    /\ conc' = [conc EXCEPT !.api_key = conc.thread[t].api_key,
                            !.thread[t].at = "loop"]
    /\ UNCHANGED Main

\* the loop of evaluate_at_depth takes a move: moves_analyzed += 1 on the
\* counter of this call of evaluate_recursive, then the child of depth 0
ThreadVisit(t) ==
    /\ conc.thread[t].at = "loop"
    /\ conc.thread[t].visited < conc.thread[t].n
    /\ conc' = [conc EXCEPT !.thread[t].moves_analyzed = @ + 1,
                            !.thread[t].visited = @ + 1,
                            !.thread[t].at = "leaf"]
    /\ UNCHANGED Main

\* openai.Completion.create(...): the request is sent with the credential
\* openai.api_key holds at the time of the call
ThreadAsk(t) ==
    /\ conc.thread[t].at = "leaf"
    /\ conc' = [conc EXCEPT !.thread[t].used = Append(@, conc.api_key),
                            !.thread[t].at = "loop"]
    /\ UNCHANGED Main

\* the loop is over and the view answers
ThreadFinish(t) ==
    /\ conc.thread[t].at = "loop"
    /\ conc.thread[t].visited = conc.thread[t].n
    /\ conc' = [conc EXCEPT !.thread[t].at = "done"]
    /\ UNCHANGED Main

NextThreads ==
    \E t \in Threads :
        \/ Construct(t)
        \/ ThreadVisit(t)
        \/ ThreadAsk(t)
        \/ ThreadFinish(t)

SpecThreads == InitThreads /\ [][NextThreads]_vars


(***************************************************************************)
(* Vocabulary of the properties.                                           *)
(***************************************************************************)
Frames == Range(stack)

\* evaluate_recursive returned a best move
Succeeded == pc = "done" /\ "best_move" \in (result.keys \ result.none)

InBounds(x) == MIN_EVAL <= x /\ x <= MAX_EVAL

\* The nodes that have returned to a caller still on the stack: while a
\* frame is in its loop, its k-th line belongs to its k-th ordered move.
NodeReturns ==
    UNION { { [pos |-> f.moves[k].pos, depth |-> f.current_depth - 1,
               score |-> f.evaluations[k].child, lines |-> f.evaluations[k].lines] :
              k \in 1..Len(f.evaluations) } : f \in Frames }

\* the scores the Leaf Evaluator can give a position during a search
LeafScores(pos) == { LeafEvaluator(req.impl, pos, r).score : r \in ServiceReplies }

BestOf(is_white, S) ==
    IF is_white THEN CHOOSE v \in S : \A w \in S : v >= w
    ELSE CHOOSE v \in S : \A w \in S : v <= w

\* Full-width minimax below a line: the scores returned by the nodes that
\* were not expanded are the leaves, White maximises, Black minimises.
\* mover is the side to move after the move of the line.
RECURSIVE Minimax(_, _)
Minimax(line, mover) ==
    IF line.lines = << >> THEN line.child
    ELSE BestOf(mover, { Minimax(line.lines[i], ~mover) : i \in DOMAIN line.lines })

RootMinimax ==
    BestOf(req.root.turn,
           { Minimax(rootRet.lines[i], ~req.root.turn) : i \in DOMAIN rootRet.lines })

MinimaxMoves ==
    { rootRet.lines[i].move : i \in { j \in DOMAIN rootRet.lines :
          Minimax(rootRet.lines[j], ~req.root.turn) = RootMinimax } }

\* the line list is sorted best-for-mover first
SortedFor(is_white, lines) ==
    \A i \in 1..(Len(lines) - 1) :
        IF is_white THEN lines[i].evaluation >= lines[i + 1].evaluation
        ELSE lines[i].evaluation <= lines[i + 1].evaluation

LineMoves(lines) == { lines[i].move : i \in DOMAIN lines }

\* every move of the root lets the opponent checkmate at once
ForcedMate ==
    /\ rootRet.moves # << >>
    /\ \A i \in DOMAIN rootRet.moves : rootRet.moves[i].pos.threat

(***************************************************************************)
(* C1.  With a heuristic-only Leaf Evaluator (no score parsed from the     *)
(* service) and depth 1 or 2, the best move and the evaluation the search  *)
(* returns are those of a full-width minimax over the same tree in which   *)
(* White maximises and Black minimises the White-positive leaf scores.     *)
(***************************************************************************)
AlphaBetaEqualsMinimax ==
    (Succeeded /\ parsed = 0 /\ req.depth \in {1, 2}) =>
        /\ result.evaluation = RootMinimax
        /\ result.best_move \in MinimaxMoves

(***************************************************************************)
(* C2.  Reported scores keep the White-positive orientation: in a depth-1  *)
(* search a move whose resulting position the Leaf Evaluator scores        *)
(* higher (better for White) is not reported with a lower evaluation than  *)
(* a move whose resulting position it scores lower.                        *)
(***************************************************************************)
SignConventionKept ==
    (Succeeded /\ req.depth = 1) =>
        \A i, j \in DOMAIN rootRet.lines :
            rootRet.lines[i].child > rootRet.lines[j].child =>
                rootRet.lines[i].evaluation >= rootRet.lines[j].evaluation

(***************************************************************************)
(* C3.  A well-formed request whose search ends with a best move is        *)
(* answered with a success response carrying that best move and            *)
(* evaluation; an error response occurs only if the evaluator reported an  *)
(* error.                                                                  *)
(***************************************************************************)
WellFormedRequestSucceeds ==
    /\ (Succeeded /\ req.view \in Views /\ SerializerValid(req) /\ req.fen_ok
            /\ req.root.n > 0) =>
          /\ response.status = HTTP_200_OK
          /\ response.best_move = result.best_move
          /\ response.evaluation = result.evaluation
    /\ (pc = "done" /\ rootRet.lines # << >> /\ response.kind = "error") =>
          ("error" \in (result.keys \ result.none))

(***************************************************************************)
(* C4.  A position without legal moves returns, at every remaining depth   *)
(* including 0, no lines and the score -MAX_EVAL when White is             *)
(* checkmated, +MAX_EVAL when Black is checkmated, 0 when it is stalemate. *)
(***************************************************************************)
TerminalScore(pos) ==
    IF is_checkmate(pos) THEN (IF pos.turn = White THEN -MAX_EVAL ELSE MAX_EVAL) ELSE 0

TerminalNodesScored ==
    \A r \in NodeReturns :
        NoLegalMoves(r.pos) => (r.lines = << >> /\ r.score = TerminalScore(r.pos))

(***************************************************************************)
(* C5.  A node searched at depth 0 returns a score of the Leaf Evaluator   *)
(* for its position together with no lines, and the Leaf Evaluator runs    *)
(* only at nodes of depth 0.                                               *)
(***************************************************************************)
FrontierReturnsLeafScore ==
    /\ \A r \in NodeReturns :
          r.depth = 0 => (r.lines = << >> /\ r.score \in LeafScores(r.pos))
    /\ \A f \in Frames : f.stage = "call" => f.current_depth = 0
    /\ leaf_calls <= moves_analyzed

\* a depth-0 node has been scored by the Leaf Evaluator and has returned
FrontierReturned ==
    /\ leaf_calls > 0
    /\ \E r \in NodeReturns : r.depth = 0 /\ r.pos.n > 0

(***************************************************************************)
(* C6.  When the judgment service, asked about a position, answers with    *)
(* an empty text, "-", ".", "-.", a text without any digit, or fails, the  *)
(* Leaf Evaluator returns the score of the Heuristic Evaluator the         *)
(* implementation orders moves with.                                       *)
(***************************************************************************)
Unusable(reply) == reply.kind = "error" \/ Count(reply.text, Digits) = 0

ScoresWithinBounds ==
    /\ \A f \in Frames :
          /\ \A k \in DOMAIN f.moves : InBounds(Heuristic(req.impl, f.moves[k].pos))
          /\ \A k \in DOMAIN f.evaluations :
                InBounds(f.evaluations[k].child) /\ InBounds(f.evaluations[k].evaluation)
    /\ Succeeded =>
          /\ InBounds(result.evaluation)
          /\ \A k \in DOMAIN result.all_lines : InBounds(result.all_lines[k].evaluation)

(***************************************************************************)
(* C8.  In a successful result all_lines is sorted best-for-mover first,   *)
(* best_move is the move of its first line and evaluation is the           *)
(* evaluation of its first line.                                           *)
(***************************************************************************)
ResultOrdered ==
    Succeeded =>
        /\ SortedFor(req.root.turn, result.all_lines)
        /\ result.best_move = result.all_lines[1].move
        /\ result.evaluation = result.all_lines[1].evaluation

\* a successful result with lines of different evaluations
OrderedResultReturned ==
    /\ Succeeded
    /\ Len(result.all_lines) >= 3
    /\ result.all_lines[1].evaluation # result.all_lines[Len(result.all_lines)].evaluation

(***************************************************************************)
(* C9.  In a successful result all_lines has at most 5 entries, the first  *)
(* min(5, n) of the n sorted lines of the root.                            *)
(***************************************************************************)
AtMostTopLines ==
    Succeeded =>
        /\ Len(result.all_lines) <= TOP_LINES
        /\ Len(result.all_lines) = Min(TOP_LINES, Len(rootRet.lines))

(***************************************************************************)
(* C10 as claimed.  A depth-1 search from a position whose side to move    *)
(* is mated by force on the next move returns the forced-mate score        *)
(* (-MAX_EVAL when White is being mated, +MAX_EVAL when Black is) and      *)
(* all_lines contains every legal move of the root.                        *)
(***************************************************************************)
ForcedMateReported ==
    (Succeeded /\ req.depth = 1 /\ ForcedMate) =>
        /\ result.evaluation = (IF req.root.turn = White THEN -MAX_EVAL ELSE MAX_EVAL)
        /\ LineMoves(result.all_lines) = 1..req.root.n

(***************************************************************************)
(* C10 as amended.  A depth-1 search from such a position does not look    *)
(* at the mating replies: the evaluation is the negated Leaf Evaluator     *)
(* score of the position after best_move, it is the best for the mover of  *)
(* the negated leaf scores of all root moves, and the lines of all_lines   *)
(* are distinct legal moves of the root, all of them when the root has at  *)
(* most 5.                                                                 *)
(***************************************************************************)
ForcedMateBeyondHorizon ==
    (Succeeded /\ req.depth = 1 /\ ForcedMate) =>
        /\ \E i \in DOMAIN rootRet.lines, k \in DOMAIN rootRet.moves :
              /\ rootRet.lines[i].move = result.best_move
              /\ rootRet.moves[k].move = result.best_move
              /\ rootRet.lines[i].child \in LeafScores(rootRet.moves[k].pos)
              /\ result.evaluation = -rootRet.lines[i].child
        /\ result.evaluation =
              BestOf(req.root.turn, { -rootRet.lines[i].child : i \in DOMAIN rootRet.lines })
        /\ LineMoves(result.all_lines) \subseteq 1..req.root.n
        /\ Cardinality(LineMoves(result.all_lines)) = Len(result.all_lines)
        /\ req.root.n <= TOP_LINES => LineMoves(result.all_lines) = 1..req.root.n

\* a depth-1 search of a forced-mate position with two legal moves ended
ForcedMateSearched ==
    /\ Succeeded /\ req.depth = 1 /\ ForcedMate
    /\ req.root.n = 2

(***************************************************************************)
(* Vocabulary of the error-handling properties.                            *)
(***************************************************************************)
\* no node was visited and the Leaf Evaluator was not called
NoSearch ==
    /\ moves_analyzed = 0 /\ leaf_calls = 0 /\ svc_calls = 0
    /\ rootRet = NoReturn /\ stack = << >>

ClientFault == response.status = HTTP_400_BAD_REQUEST

ServerFault == response.status >= HTTP_500_INTERNAL_SERVER_ERROR

(***************************************************************************)
(* C11.  A request with a malformed position is answered by either view    *)
(* with status 400 (for a request the serializer accepts, with the         *)
(* "Invalid FEN" error) and no node is visited and no Leaf Evaluator call  *)
(* is made for it.                                                         *)
(***************************************************************************)
MalformedPositionRejected ==
    (pc = "done" /\ req.view \in Views /\ ~req.fen_ok) =>
        /\ ClientFault
        /\ SerializerValid(req) => (response.kind = "error" /\ response.error = "Invalid FEN")
        /\ NoSearch

(***************************************************************************)
(* C12.  A request the serializer accepts whose position parses but has    *)
(* no legal moves is answered by either view with status 400 and the "No   *)
(* legal moves available in this position" error, and no node is visited.  *)
(***************************************************************************)
NoLegalMovesReported ==
    (pc = "done" /\ req.view \in Views /\ SerializerValid(req) /\ req.fen_ok
        /\ NoLegalMoves(req.root)) =>
        /\ ClientFault
        /\ response.kind = "error"
        /\ response.error = "No legal moves available in this position"
        /\ NoSearch

\* a checkmated root was sent to EvaluatePositionView of views.py, whose
\* evaluator (not the view) detects it
NoLegalMovesRejected ==
    /\ pc = "done" /\ req.impl = "legacy" /\ req.view = "evaluate"
    /\ SerializerValid(req) /\ req.fen_ok /\ req.root.status = "checkmate"
    /\ response.kind = "error"

(***************************************************************************)
(* C13.  A request whose depth is outside 1..3 is answered with the        *)
(* serializer's errors and status 400 and no node is visited;              *)
(* evaluate_recursive called directly with depth < 1 returns an error      *)
(* without visiting a node, the error "Depth must be at least 1" when the  *)
(* position parses and has legal moves.                                    *)
(***************************************************************************)
DepthOutOfRangeRejected ==
    /\ (pc = "done" /\ req.view \in Views /\ ~(req.depth \in MIN_DEPTH..MAX_DEPTH)) =>
          (response = SerializerErrors /\ ClientFault /\ result = NoResult /\ NoSearch)
    /\ (pc = "done" /\ req.view = "direct" /\ req.depth < 1) =>
          /\ "error" \in (result.keys \ result.none)
          /\ NoSearch
          /\ (req.fen_ok /\ ~NoLegalMoves(req.root)) =>
                result.error = "Depth must be at least 1"

\* depth 0 was sent to a view for a position with legal moves
DepthZeroRejected ==
    /\ pc = "done" /\ req.view \in Views /\ req.depth = 0
    /\ req.key_ok /\ req.fen_ok /\ req.root.n > 0

(***************************************************************************)
(* C14.  Internal-consistency failures are answered with a 5xx status:     *)
(* the "No valid moves found" error of a search whose root passed the      *)
(* validation, and a best move the view finds illegal.                     *)
(***************************************************************************)
InternalFailuresAreServerFaults ==
    /\ (pc = "done" /\ req.view \in Views /\ result.keys # {}
            /\ result.error = "No valid moves found") => ServerFault
    /\ (pc = "done" /\ response.error = "Invalid move") => ServerFault

(***************************************************************************)
(* C15.  When the root position has a legal move and depth >= 1, the       *)
(* search returns a non-empty line list and the "No valid moves found"     *)
(* error does not occur, also for a root the oracle reports as game over   *)
(* although legal moves exist.                                             *)
(***************************************************************************)
SearchReturnsLines ==
    (pc = "done" /\ req.fen_ok /\ req.root.n > 0 /\ req.depth >= 1 /\ result.keys # {}) =>
        /\ rootRet.lines # << >>
        /\ result.error # "No valid moves found"

(***************************************************************************)
(* C16.  When two requests are served by threads of one process, every     *)
(* request sent to the judgment service for a request carries that         *)
(* request's credential, and the node counter of a request counts its own  *)
(* nodes only.                                                             *)
(***************************************************************************)
RequestsShareNothing ==
    \A t \in Threads :
        /\ \A i \in DOMAIN conc.thread[t].used :
              conc.thread[t].used[i] = conc.thread[t].api_key
        /\ conc.thread[t].moves_analyzed = conc.thread[t].visited

(***************************************************************************)
(* Vocabulary of the properties of the search tree.                        *)
(***************************************************************************)
\* the lines recorded so far by the nodes on the stack
RecordedLines == UNION { Range(f.evaluations) : f \in Frames }

LineEvaluations(lines) == { lines[i].evaluation : i \in DOMAIN lines }

\* the positions of the nodes depth plies below the node that returned
\* lines, one for every path, in the order of the lines
RECURSIVE FrontierPositions(_, _)
FrontierPositions(lines, depth) ==
    IF lines = << >> THEN << >>
    ELSE (IF depth = 1 THEN << Head(lines).pos >>
          ELSE FrontierPositions(Head(lines).lines, depth - 1))
            \o FrontierPositions(Tail(lines), depth)

\* the best line below a line list, move after move
RECURSIVE PrincipalLine(_)
PrincipalLine(lines) ==
    IF lines = << >> THEN << >>
    ELSE << lines[1].move >> \o PrincipalLine(lines[1].lines)

(***************************************************************************)
(* C17.  In a successful result best_move is a legal move of the root      *)
(* position and the moves of all_lines are distinct legal moves of the     *)
(* root position (whatever the Leaf Evaluator answers, in particular when  *)
(* it is heuristic-only).                                                  *)
(***************************************************************************)
BestMoveIsLegal ==
    Succeeded =>
        /\ result.best_move \in 1..req.root.n
        /\ LineMoves(result.all_lines) \subseteq 1..req.root.n
        /\ Cardinality(LineMoves(result.all_lines)) = Len(result.all_lines)

\* a heuristic-only depth-1 search of a root with three or more legal moves
\* has returned a best move
LegalMoveChosen ==
    /\ Succeeded /\ parsed = 0 /\ texts = 0
    /\ req.depth = 1 /\ req.root.n >= 3

(***************************************************************************)
(* C18.  Every line recorded at an internal node carries the negation of   *)
(* the score its child returned, and the score an internal node returns    *)
(* is the best for its mover (maximum for White, minimum for Black) of     *)
(* the evaluations of its lines.                                           *)
(***************************************************************************)
NegationSymmetry ==
    /\ \A l \in RecordedLines :
          /\ l.evaluation = -l.child
          /\ l.lines # << >> => l.child = BestOf(l.pos.turn, LineEvaluations(l.lines))
    /\ (pc \in {"assemble", "done"} /\ rootRet.lines # << >>) =>
          rootRet.score = BestOf(req.root.turn, LineEvaluations(rootRet.lines))

\* an internal node below the root has returned lines of different
\* evaluations and its parent has recorded the line
InternalNodeReturned ==
    \E l \in RecordedLines :
        /\ Len(l.lines) >= 2
        /\ Cardinality(LineEvaluations(l.lines)) >= 2
        /\ l.child # 0

(***************************************************************************)
(* Bounds of the nodes: a White node has beta = +inf, a Black node has     *)
(* alpha = -inf, no cutoff happens, and every node that was expanded has   *)
(* a line for each of its legal moves.                                     *)
(***************************************************************************)
NoCutoff ==
    /\ \A f \in Frames :
          /\ f.pos.turn = White => f.beta = Inf
          /\ f.pos.turn = Black => f.alpha = -Inf
          /\ ~f.pruned
    /\ \A l \in RecordedLines : l.lines # << >> => Len(l.lines) = l.pos.n
    /\ (pc \in {"assemble", "done"} /\ rootRet.lines # << >>) =>
          Len(rootRet.lines) = req.root.n

(***************************************************************************)
(* C19 as claimed.  No cutoff ever happens, every legal move of every      *)
(* expanded node gets a line, and the number of Leaf Evaluator calls of a  *)
(* search equals the number of paths of length depth of the tree.          *)
(***************************************************************************)
NoCutoffAllPathsEvaluated ==
    /\ NoCutoff
    /\ (pc = "done" /\ rootRet.lines # << >>) =>
          leaf_calls = Len(FrontierPositions(rootRet.lines, req.depth))

(***************************************************************************)
(* C19 as amended.  No cutoff ever happens, every legal move of every      *)
(* expanded node gets a line, and the number of Leaf Evaluator calls of a  *)
(* search equals the number of paths of length depth of the tree, less,    *)
(* in api/chess_evaluator.py, those that end in a position without legal   *)
(* moves (such a node returns 0.0 without a call).                         *)
(***************************************************************************)
HandedToLeafEvaluator(p) == req.impl = "pkg" \/ ~NoLegalMoves(p)

NoCutoffFrontierEvaluated ==
    /\ NoCutoff
    /\ (pc = "done" /\ rootRet.lines # << >>) =>
          leaf_calls =
              Len(SelectSeq(FrontierPositions(rootRet.lines, req.depth), HandedToLeafEvaluator))

\* a depth-2 search with several paths, of which one ends in a position
\* without legal moves, has ended
FullTreeSearched ==
    /\ pc = "done" /\ req.depth = 2 /\ leaf_calls >= 1
    /\ Len(FrontierPositions(rootRet.lines, 2)) >= 2
    /\ \E i \in DOMAIN FrontierPositions(rootRet.lines, 2) :
          NoLegalMoves(FrontierPositions(rootRet.lines, 2)[i])

(***************************************************************************)
(* C20.  The continuation of every EvaluationLine recorded at a node of    *)
(* depth >= 2 is the principal line below its move: the child's best       *)
(* reply, then the best reply to that, and so on (EvaluationLine is the    *)
(* record of api/chess_evaluator.py; the dicts of api/chess/evaluator.py   *)
(* have no continuation).                                                  *)
(***************************************************************************)
ContinuationIsPrincipalLine ==
    req.impl = "legacy" =>
        \A f \in Frames : f.current_depth >= 2 =>
            \A k \in DOMAIN f.evaluations :
                f.evaluations[k].continuation = PrincipalLine(f.evaluations[k].lines)

(***************************************************************************)
(* Vocabulary of the parsing properties.                                   *)
(***************************************************************************)
\* the maximal runs of digits, points and minus signs of a text, in order
\* (cur is the run being read)
RECURSIVE Runs(_, _)
Runs(s, cur) ==
    IF s = << >> THEN (IF cur = << >> THEN << >> ELSE << cur >>)
    ELSE IF KeepChar(Head(s)) THEN Runs(Tail(s), Append(cur, Head(s)))
    ELSE (IF cur = << >> THEN << >> ELSE << cur >>) \o Runs(Tail(s), << >>)

\* the numbers a text states: its runs that hold a digit
StatedNumbers(text) == SelectSeq(Runs(text, << >>), LAMBDA r : Count(r, Digits) > 0)

(***************************************************************************)
(* C21.  An answer of the judgment service that the Leaf Evaluator parses  *)
(* (does not route to the fallback) states exactly one number, and that    *)
(* number is the text that is parsed: an answer with several numbers is    *)
(* never parsed into a number it does not state.                           *)
(***************************************************************************)
ParsedNumberIsStated ==
    (pc = "unit_done" /\ unit.leaf.asked /\ unit.reply.kind = "text"
        /\ ~unit.leaf.fallback) =>
        StatedNumbers(unit.reply.text) = << Clean(Strip(unit.reply.text)) >>

\* the node i plies below the root is searched with remaining depth
\* depth - i, which is never negative: at most depth + 1 nodes are open
DepthDecreases ==
    /\ Len(stack) <= req.depth + 1
    /\ \A i \in DOMAIN stack :
          /\ stack[i].level = i - 1
          /\ stack[i].current_depth = req.depth - (i - 1)
          /\ stack[i].current_depth >= 0

(***************************************************************************)
(* C22.  For a root with legal moves and a depth >= 1, with every call of  *)
(* the judgment service returning: each recursive call is made with the    *)
(* remaining depth of its caller less one, the recursion is never deeper   *)
(* than depth plies and no node has a negative depth; and the search       *)
(* eventually ends with a result or an error.                              *)
(***************************************************************************)
SearchTerminates ==
    /\ []DepthDecreases
    /\ (pc = "search") ~> (pc = "done" /\ result.keys # {})

\* a depth-2 search that called the Leaf Evaluator two plies below the root
\* has ended
HorizonSearchEnded ==
    /\ pc = "done" /\ req.depth = 2 /\ result.keys # {}
    /\ leaf_calls >= 1

=============================================================================
